---- MODULE Spec2Model ----
(***************************************************************************)
(* Exam paper generator (src/app.py): text extraction, question            *)
(* generation through a completion client, paper assembly and the styled   *)
(* PDF renderer.  Python strings are sequences of one-character strings.   *)
(***************************************************************************)
EXTENDS Integers, Sequences, FiniteSets, TLC

VARIABLES
    env_api_key,        \* TRUE iff the process environment holds an API credential
    uploaded_files,     \* st.file_uploader(...) result, a list of files
    specific_topic,     \* st.text_input(...) result
    mcq_selected,       \* the three st.checkbox(...) results
    short_selected,
    long_selected,
    clicked,            \* st.button("Generate Exam Paper") result
    pc,                 \* position of main() in its run
    combined_text,      \* main: combined_text
    question_settings,  \* main: question_settings, a dict in insertion order
    paper_content,      \* main: paper_content
    combined_paper,     \* main: combined_paper
    pdf_buffer,         \* main: the elements built into pdf_buffer
    calls,              \* every client.chat.completions.create call, in order
    ui,                 \* what main() showed through st.error/warning/success/...
    arg,                \* input of the function applied on its own
    ret                 \* its result

vars == <<env_api_key, uploaded_files, specific_topic, mcq_selected,
          short_selected, long_selected, clicked, pc, combined_text,
          question_settings, paper_content, combined_paper, pdf_buffer,
          calls, ui, arg, ret>>

(* ------------------------------ bounds -------------------------------- *)

MaxFiles == 2
MaxUnits == 2
MaxTokens == 4
MaxContentLen == 3

(* ------------------------- string primitives -------------------------- *)

\* str.strip() with no argument removes these characters
Whitespace == {" ", "\t", "\n", "\r", "\f"}

RECURSIVE LStrip(_)
LStrip(s) ==
    IF s # <<>> /\ Head(s) \in Whitespace THEN LStrip(Tail(s)) ELSE s

RECURSIVE RStrip(_)
RStrip(s) ==
    IF s # <<>> /\ s[Len(s)] \in Whitespace
    THEN RStrip(SubSeq(s, 1, Len(s) - 1))
    ELSE s

Strip(s) == RStrip(LStrip(s))

StartsWith(s, p) ==
    Len(s) >= Len(p) /\ SubSeq(s, 1, Len(p)) = p

StartsWithAny(s, ps) == \E p \in ps : StartsWith(s, p)

\* s[:n]
Take(s, n) == IF Len(s) <= n THEN s ELSE SubSeq(s, 1, n)

\* s[n:]
Drop(s, n) == IF Len(s) <= n THEN <<>> ELSE SubSeq(s, n + 1, Len(s))

\* sep.join(parts)
RECURSIVE Join(_, _)
Join(parts, sep) ==
    IF parts = <<>> THEN <<>>
    ELSE IF Len(parts) = 1 THEN parts[1]
    ELSE parts[1] \o sep \o Join(Tail(parts), sep)

\* s.split(sep) for a one-character separator: one part more than there are
\* separators, each part the characters between two of them
Split(s, sep) ==
    LET at == SelectSeq([i \in 1..Len(s) |-> i], LAMBDA i : s[i] = sep)
        n  == Len(at)
    IN  [k \in 1..(n + 1) |->
            SubSeq(s, IF k = 1 THEN 1 ELSE at[k - 1] + 1,
                      IF k = n + 1 THEN Len(s) ELSE at[k] - 1)]

\* s.replace(old, new): every non-overlapping occurrence, left to right
RECURSIVE Replace(_, _, _)
Replace(s, old, new) ==
    IF s = <<>> THEN <<>>
    ELSE IF StartsWith(s, old) THEN new \o Replace(Drop(s, Len(old)), old, new)
    ELSE <<Head(s)>> \o Replace(Tail(s), old, new)

ToLower(c) ==
    CASE c = "A" -> "a" [] c = "B" -> "b" [] c = "C" -> "c" [] c = "D" -> "d"
      [] c = "E" -> "e" [] c = "F" -> "f" [] c = "G" -> "g" [] c = "H" -> "h"
      [] c = "I" -> "i" [] c = "J" -> "j" [] c = "K" -> "k" [] c = "L" -> "l"
      [] c = "M" -> "m" [] c = "N" -> "n" [] c = "O" -> "o" [] c = "P" -> "p"
      [] c = "Q" -> "q" [] c = "R" -> "r" [] c = "S" -> "s" [] c = "T" -> "t"
      [] c = "U" -> "u" [] c = "V" -> "v" [] c = "W" -> "w" [] c = "X" -> "x"
      [] c = "Y" -> "y" [] c = "Z" -> "z" [] OTHER -> c

\* s.lower()
Lower(s) == [i \in 1..Len(s) |-> ToLower(s[i])]

(* ------------------------- generate_styled_pdf ------------------------ *)

HASHES == <<"#", "#", "#">>

OPTION_PREFIXES == {<<"A", ")">>, <<"B", ")">>, <<"C", ")">>, <<"D", ")">>}

Paragraph(text, style) == [kind |-> "Paragraph", text |-> text, style |-> style]

\* Spacer(1, h * inch)
Spacer(h) == [kind |-> "Spacer", height |-> h]

TitleSpacer == Spacer("0.25 inch")

SmallSpacer == Spacer("0.1 inch")

\* header = line.replace('###', '').strip()
HeaderText(line) == Strip(Replace(line, HASHES, <<>>))

\* the if/elif chain on one stripped line: the paragraphs it appends
LineParagraph_OptionByLetter(line) ==
    IF StartsWith(line, HASHES)
    THEN <<Paragraph(HeaderText(line), "QuestionHeaderStyle")>>
    ELSE IF StartsWith(line, <<"Q">>)
    THEN <<Paragraph(line, "QuestionStyle")>>
    ELSE IF StartsWithAny(line, {<<"A">>, <<"B">>, <<"C">>, <<"D">>})
    THEN <<Paragraph(line, "OptionStyle")>>
    ELSE IF line # <<>>
    THEN <<Paragraph(line, "BodyText")>>
    ELSE <<>>

LineParagraph(line) ==
    IF StartsWith(line, HASHES)
    THEN <<Paragraph(HeaderText(line), "QuestionHeaderStyle")>>
    ELSE IF StartsWith(line, <<"Q">>)
    THEN <<Paragraph(line, "QuestionStyle")>>
    ELSE IF StartsWithAny(line, OPTION_PREFIXES)
    THEN <<Paragraph(line, "OptionStyle")>>
    ELSE IF line # <<>>
    THEN <<Paragraph(line, "BodyText")>>
    ELSE <<>>

\* one iteration of the loop over lines
LineElements_SpacerInsideBranch(raw) ==
    LET p == LineParagraph(Strip(raw))
    IN  IF p # <<>> THEN p \o <<SmallSpacer>> ELSE <<>>

LineElements(raw) == LineParagraph(Strip(raw)) \o <<SmallSpacer>>

RECURSIVE BodyElements(_)
BodyElements(lines) ==
    IF lines = <<>> THEN <<>>
    ELSE LineElements(Head(lines)) \o BodyElements(Tail(lines))

\* the elements handed to doc.build
generate_styled_pdf(title, content) ==
    <<Paragraph(title, "TitleStyle"), TitleSpacer>>
        \o BodyElements(Split(content, "\n"))

(* ------------------------------ extract_text -------------------------- *)

PDF_TYPE == "application/pdf"

DOCX_TYPE == "application/vnd.openxmlformats-officedocument.wordprocessingml.document"

PPTX_TYPE == "application/vnd.openxmlformats-officedocument.presentationml.presentation"

XLSX_TYPE == "application/vnd.openxmlformats-officedocument.spreadsheetml.sheet"

TEXT_TYPE == "text/plain"

SupportedTypes == {PDF_TYPE, DOCX_TYPE, PPTX_TYPE, XLSX_TYPE, TEXT_TYPE}

UNSUPPORTED ==
    <<"U", "n", "s", "u", "p", "p", "o", "r", "t", "e", "d", " ", "f", "i", "l",
      "e", " ", "f", "o", "r", "m", "a", "t">>

ERROR_PROCESSING ==
    <<"E", "r", "r", "o", "r", " ", "p", "r", "o", "c", "e", "s", "s", "i", "n",
      "g", " ", "f", "i", "l", "e", ":", " ">>

\* what DataFrame.to_string gives for a sheet without cells
EMPTY_DATAFRAME ==
    <<"E", "m", "p", "t", "y", " ", "D", "a", "t", "a", "F", "r", "a", "m", "e",
      "\n", "C", "o", "l", "u", "m", "n", "s", ":", " ", "[", "]",
      "\n", "I", "n", "d", "e", "x", ":", " ", "[", "]">>

\* A unit of a document without text: page.extract_text() giving None, or a
\* shape without a text attribute.
NoText == <<"None">>

\* a function either returns a value or raises an exception with a message
Return(v) == [raised |-> FALSE, value |-> v]

Raise(msg) == [raised |-> TRUE, value |-> msg]

\* A file is its declared media type, whether the library reading it throws
\* (and with what message), and the units the library yields: pages,
\* paragraphs, shapes, rendered rows, lines.
Open(file) == IF file.corrupt THEN Raise(file.error) ELSE Return(file.units)

ReadPdf(file) ==
    LET o == Open(file)
    IN  IF o.raised THEN o
        ELSE Return(Join([i \in 1..Len(o.value) |->
                            IF o.value[i] = NoText THEN <<>> ELSE o.value[i]],
                         <<"\n">>))

ReadDocx(file) ==
    LET o == Open(file)
    IN  IF o.raised THEN o ELSE Return(Join(o.value, <<"\n">>))

ReadPptx(file) ==
    LET o == Open(file)
        HasText(u) == u # NoText
    IN  IF o.raised THEN o
        ELSE Return(Join(SelectSeq(o.value, HasText), <<"\n">>))

ReadXlsx(file) ==
    LET o == Open(file)
    IN  IF o.raised THEN o
        ELSE IF o.value = <<>> THEN Return(EMPTY_DATAFRAME)
        ELSE Return(Join(o.value, <<"\n">>))

ReadText(file) ==
    LET o == Open(file)
    IN  IF o.raised THEN o ELSE Return(Join(o.value, <<"\n">>))

\* the body of the try block
ExtractBody(file) ==
    IF file.type = PDF_TYPE THEN ReadPdf(file)
    ELSE IF file.type = DOCX_TYPE THEN ReadDocx(file)
    ELSE IF file.type = PPTX_TYPE THEN ReadPptx(file)
    ELSE IF file.type = XLSX_TYPE THEN ReadXlsx(file)
    ELSE IF file.type = TEXT_TYPE THEN ReadText(file)
    ELSE Return(UNSUPPORTED)

extract_text_NoExcept(file) == ExtractBody(file)

extract_text(file) ==
    LET r == ExtractBody(file)
    IN  IF r.raised THEN Return(ERROR_PROCESSING \o r.value) ELSE r

(* ---------------------------- generate_questions ---------------------- *)

NO_CONTENT ==
    <<"N", "o", " ", "c", "o", "n", "t", "e", "n", "t", " ", "p", "r", "o", "v",
      "i", "d", "e", "d", " ", "f", "o", "r", " ", "q", "u", "e", "s", "t", "i",
      "o", "n", " ", "g", "e", "n", "e", "r", "a", "t", "i", "o", "n", ".">>

ERROR_GENERATING ==
    <<"E", "r", "r", "o", "r", " ", "g", "e", "n", "e", "r", "a", "t", "i", "n",
      "g", " ", "q", "u", "e", "s", "t", "i", "o", "n", "s", ":", " ">>

MCQ_TYPE ==
    <<"m", "u", "l", "t", "i", "p", "l", "e", " ", "c", "h", "o", "i", "c", "e",
      " ", "q", "u", "e", "s", "t", "i", "o", "n", "s">>

SHORT_TYPE ==
    <<"s", "h", "o", "r", "t", " ", "q", "u", "e", "s", "t", "i", "o", "n", "s">>

LONG_TYPE ==
    <<"l", "o", "n", "g", " ", "q", "u", "e", "s", "t", "i", "o", "n", "s">>

FOCUS_TOPIC ==
    <<"-", " ", "F", "o", "c", "u", "s", " ", "T", "o", "p", "i", "c", ":", " ">>

\* the message of the error raised when prompt is read without being bound
PROMPT_UNBOUND ==
    <<"p", "r", "o", "m", "p", "t", " ", "u", "n", "b", "o", "u", "n", "d">>

MAX_PROMPT_CHARS == 4000

\* the f-string of one template, by the values interpolated into it
Prompt(template, content, num_questions, difficulty, topic) ==
    [template      |-> template,
     content       |-> Take(content, MAX_PROMPT_CHARS),
     focus         |-> IF topic # <<>>
                       THEN FOCUS_TOPIC \o topic ELSE <<>>,
     difficulty    |-> difficulty,
     num_questions |-> num_questions]

\* the key main() hands to DocumentProcessor: a literal of the source, whatever
\* the process environment holds
api_key == "gsk_... (literal)"

\* a create call of the client built from api_key
Request(prompt) ==
    [api_key |-> api_key, model |-> "gemma2-9b-it", temperature |-> "0.7",
     prompt |-> prompt]

\* `response` is what the completion client does with the request, should one
\* be issued: return response.text, or raise with message response.text.
\* The value has the returned string and the requests issued.
generate_questions_NoStrip(content, question_type, num_questions, difficulty, topic, response) ==
    IF content = <<>>
    THEN [result |-> NO_CONTENT, requests |-> <<>>]
    ELSE IF question_type \notin {MCQ_TYPE, SHORT_TYPE, LONG_TYPE}
    THEN [result |-> ERROR_GENERATING \o PROMPT_UNBOUND, requests |-> <<>>]
    ELSE [result   |-> IF response.raises
                       THEN ERROR_GENERATING \o response.text
                       ELSE response.text,
          requests |-> <<Request(Prompt(question_type, content, num_questions,
                                        difficulty, topic))>>]

generate_questions_ErrorBlank(content, question_type, num_questions, difficulty, topic, response) ==
    IF content = <<>> \/ Strip(content) = <<>>
    THEN [result |-> NO_CONTENT, requests |-> <<>>]
    ELSE IF question_type \notin {MCQ_TYPE, SHORT_TYPE, LONG_TYPE}
    THEN [result |-> ERROR_GENERATING \o PROMPT_UNBOUND, requests |-> <<>>]
    ELSE [result   |-> IF response.raises THEN <<>> ELSE response.text,
          requests |-> <<Request(Prompt(question_type, content, num_questions,
                                        difficulty, topic))>>]

generate_questions(content, question_type, num_questions, difficulty, topic, response) ==
    IF content = <<>> \/ Strip(content) = <<>>
    THEN [result |-> NO_CONTENT, requests |-> <<>>]
    ELSE IF question_type \notin {MCQ_TYPE, SHORT_TYPE, LONG_TYPE}
    THEN [result |-> ERROR_GENERATING \o PROMPT_UNBOUND, requests |-> <<>>]
    ELSE [result   |-> IF response.raises
                       THEN ERROR_GENERATING \o response.text
                       ELSE response.text,
          requests |-> <<Request(Prompt(question_type, content, num_questions,
                                        difficulty, topic))>>]

(* ---------------------------------- main ------------------------------ *)

MCQ_NAME ==
    <<"M", "u", "l", "t", "i", "p", "l", "e", " ", "C", "h", "o", "i", "c", "e",
      " ", "Q", "u", "e", "s", "t", "i", "o", "n", "s">>

SHORT_NAME ==
    <<"S", "h", "o", "r", "t", " ", "Q", "u", "e", "s", "t", "i", "o", "n", "s">>

LONG_NAME ==
    <<"L", "o", "n", "g", " ", "Q", "u", "e", "s", "t", "i", "o", "n", "s">>

EXAM_PAPER == <<"E", "x", "a", "m", " ", "P", "a", "p", "e", "r">>

question_type_name(q_type) ==
    CASE q_type = "mcq" -> MCQ_NAME
      [] q_type = "short" -> SHORT_NAME
      [] q_type = "long" -> LONG_NAME

NO_TEXT_ERROR == "error: No text could be extracted from the uploaded documents."

PROCESSED_SUCCESS == "success: Documents uploaded and processed successfully!"

SELECT_WARNING == "warning: Please select at least one question type."

OCCURRED_ERROR == "error: An error occurred"

PAPER_WRITTEN == "write: Generated Exam Paper"

DOWNLOAD_BUTTON == "download_button: exam_paper.pdf application/pdf"

\* the slider and selectbox values of one selected type
Settings == {[num_questions |-> 5, difficulty |-> "Easy"]}

\* question_settings after the three `if ..._selected:` blocks
BuildSettings_LongFirst(m, ms, s, ss, l, ls) ==
    (IF l THEN <<[key |-> "long", num_questions |-> ls.num_questions,
                  difficulty |-> ls.difficulty]>> ELSE <<>>)
    \o (IF s THEN <<[key |-> "short", num_questions |-> ss.num_questions,
                     difficulty |-> ss.difficulty]>> ELSE <<>>)
    \o (IF m THEN <<[key |-> "mcq", num_questions |-> ms.num_questions,
                     difficulty |-> ms.difficulty]>> ELSE <<>>)

BuildSettings(m, ms, s, ss, l, ls) ==
    (IF m THEN <<[key |-> "mcq", num_questions |-> ms.num_questions,
                  difficulty |-> ms.difficulty]>> ELSE <<>>)
    \o (IF s THEN <<[key |-> "short", num_questions |-> ss.num_questions,
                     difficulty |-> ss.difficulty]>> ELSE <<>>)
    \o (IF l THEN <<[key |-> "long", num_questions |-> ls.num_questions,
                     difficulty |-> ls.difficulty]>> ELSE <<>>)

\* `not combined_text or combined_text.strip() == ""`
NoCombinedText_NotStripped(text) == text = <<>>

NoCombinedText(text) == text = <<>> \/ Strip(text) = <<>>

\* what pressing (or not pressing) the button leads to
ButtonOutcome_NoGuard(c, settings) ==
    IF ~c THEN "end" ELSE "generate"

ButtonOutcome(c, settings) ==
    IF ~c THEN "end"
    ELSE IF settings = <<>> THEN "warn"
    ELSE "generate"

\* f"### {question_type_name[q_type]}\n\n{questions}"
Block(name, questions) == <<"#", "#", "#", " ">> \o name \o <<"\n", "\n">> \o questions

\* what the completion client may do with a request
Responses ==
    {[raises |-> FALSE, text |-> <<"Q", "1">>],
     [raises |-> TRUE,  text |-> <<"e">>]}

\* `if uploaded_files:` is false: the script ends
Main_NoFiles ==
    /\ pc = "start"
    /\ uploaded_files = <<>>
    /\ pc' = "done"
    /\ UNCHANGED <<env_api_key, uploaded_files, specific_topic, mcq_selected,
                   short_selected, long_selected, clicked, combined_text,
                   question_settings, paper_content, combined_paper,
                   pdf_buffer, calls, ui, arg, ret>>

\* processor = DocumentProcessor(api_key); the join of the extracted texts and
\* the test on it
Main_Extract ==
    /\ pc = "start"
    /\ uploaded_files # <<>>
    /\ LET results == [i \in 1..Len(uploaded_files) |->
                          extract_text(uploaded_files[i])]
           text == Join([i \in 1..Len(results) |-> results[i].value],
                        <<"\n", "\n">>)
       IN  IF \E i \in 1..Len(results) : results[i].raised
           THEN /\ ui' = Append(ui, OCCURRED_ERROR)
                /\ pc' = "done"
                /\ UNCHANGED combined_text
           ELSE /\ combined_text' = text
                /\ IF NoCombinedText(text)
                   THEN ui' = Append(ui, NO_TEXT_ERROR) /\ pc' = "done"
                   ELSE ui' = Append(ui, PROCESSED_SUCCESS) /\ pc' = "widgets"
    /\ UNCHANGED <<env_api_key, uploaded_files, specific_topic, mcq_selected,
                   short_selected, long_selected, clicked, question_settings,
                   paper_content, combined_paper, pdf_buffer, calls, arg, ret>>

\* the checkboxes, the settings of the selected types and the button
Main_Widgets ==
    /\ pc = "widgets"
    /\ \E m, s, l, c \in BOOLEAN : \E ms, ss, ls \in Settings :
          LET settings == BuildSettings(m, ms, s, ss, l, ls)
              outcome  == ButtonOutcome(c, settings)
          IN  /\ mcq_selected' = m
              /\ short_selected' = s
              /\ long_selected' = l
              /\ clicked' = c
              /\ question_settings' = settings
              /\ IF outcome = "warn"
                 THEN ui' = Append(ui, SELECT_WARNING) /\ pc' = "done"
                 ELSE IF outcome = "generate"
                 THEN ui' = ui /\ pc' = "loop"
                 ELSE ui' = ui /\ pc' = "done"
    /\ paper_content' = <<>>
    /\ UNCHANGED <<env_api_key, uploaded_files, specific_topic, combined_text,
                   combined_paper, pdf_buffer, calls, arg, ret>>

\* one iteration of `for q_type, settings in question_settings.items()`
Main_GenerateQuestions ==
    /\ pc = "loop"
    /\ Len(paper_content) < Len(question_settings)
    /\ LET settings == question_settings[Len(paper_content) + 1]
           name     == question_type_name(settings.key)
       IN  \E response \in Responses :
              LET r == generate_questions(combined_text, Lower(name),
                                          settings.num_questions,
                                          settings.difficulty,
                                          specific_topic, response)
              IN  /\ paper_content' = Append(paper_content, Block(name, r.result))
                  /\ calls' = calls \o [i \in 1..Len(r.requests) |->
                                          [request  |-> r.requests[i],
                                           response |-> response]]
    /\ UNCHANGED <<env_api_key, uploaded_files, specific_topic, mcq_selected,
                   short_selected, long_selected, clicked, pc, combined_text,
                   question_settings, combined_paper, pdf_buffer, ui, arg, ret>>

\* after the loop: the join, the display and the PDF offered for download
Main_Render ==
    /\ pc = "loop"
    /\ Len(paper_content) = Len(question_settings)
    /\ LET paper == Join(paper_content, <<"\n", "\n">>)
       IN  /\ combined_paper' = paper
           /\ pdf_buffer' = generate_styled_pdf(EXAM_PAPER, paper)
    /\ ui' = ui \o <<PAPER_WRITTEN, DOWNLOAD_BUTTON>>
    /\ pc' = "done"
    /\ UNCHANGED <<env_api_key, uploaded_files, specific_topic, mcq_selected,
                   short_selected, long_selected, clicked, combined_text,
                   question_settings, paper_content, calls, arg, ret>>

(* ------------------------------ input sets ---------------------------- *)

SeqsUpTo(S, n) == UNION {[1..k -> S] : k \in 0..n}

READ_ERRORS == {<<"b", "a", "d">>}

UnitTexts == {<<>>, <<"a">>}

\* NoText units occur only where the reader can meet them
UnitsOf(type) ==
    IF type \in {PDF_TYPE, PPTX_TYPE} THEN UnitTexts \cup {NoText} ELSE UnitTexts

OTHER_TYPE == "image/png"

Files ==
    UNION {
      {[type |-> t, corrupt |-> FALSE, error |-> <<>>, units |-> u] :
          u \in SeqsUpTo(UnitsOf(t), MaxUnits)}
      \cup {[type |-> t, corrupt |-> TRUE, error |-> e, units |-> <<>>] :
          e \in READ_ERRORS}
      : t \in SupportedTypes \cup {OTHER_TYPE}}

\* the uploader accepts pdf, pptx, docx, xlsx and txt only
MainFiles ==
    {f \in Files : /\ f.type \in SupportedTypes
                   /\ f.units \in {<<>>, << <<"a">> >>}}

Topics == {<<>>, <<"t">>}

\* main() is run with the topic box left blank
MainTopics == {<<>>}

Tokens ==
    {<<"#", "#", "#">>, <<"#">>, <<"Q">>, <<"A", ")">>, <<"B", ")">>,
     <<"C", ")">>, <<"D", ")">>, <<"A">>, <<" ">>, <<"\n">>}

PdfContents == {Join(ts, <<>>) : ts \in SeqsUpTo(Tokens, MaxTokens)}

Titles == {EXAM_PAPER, <<"T">>}

Contents == SeqsUpTo({" ", "\n", "a"}, MaxContentLen)

QuestionTypes == {MCQ_TYPE, SHORT_TYPE, LONG_TYPE, <<"e", "s", "s", "a", "y">>}

NumQuestions == {1, 20}

Difficulties == {"Easy", "Medium", "Hard", "Mixed"}

(* ---------------------------- specifications -------------------------- *)

Idle ==
    /\ mcq_selected = FALSE
    /\ short_selected = FALSE
    /\ long_selected = FALSE
    /\ clicked = FALSE
    /\ combined_text = <<>>
    /\ question_settings = <<>>
    /\ paper_content = <<>>
    /\ combined_paper = <<>>
    /\ pdf_buffer = <<>>
    /\ calls = <<>>
    /\ ui = <<>>

\* one run of main()
Init ==
    /\ pc = "start"
    /\ env_api_key \in BOOLEAN
    /\ uploaded_files \in SeqsUpTo(MainFiles, MaxFiles)
    /\ specific_topic \in MainTopics
    /\ Idle
    /\ arg = <<>>
    /\ ret = <<>>

Next ==
    \/ Main_NoFiles
    \/ Main_Extract
    \/ Main_Widgets
    \/ Main_GenerateQuestions
    \/ Main_Render

Spec == Init /\ [][Next]_vars

MainUnused ==
    /\ env_api_key = FALSE
    /\ uploaded_files = <<>>
    /\ specific_topic = <<>>
    /\ Idle

\* generate_styled_pdf applied to a title and a body
InitPdf ==
    /\ pc = "call"
    /\ arg \in [title : Titles, content : PdfContents]
    /\ ret = <<>>
    /\ MainUnused

Apply_generate_styled_pdf ==
    /\ pc = "call"
    /\ ret' = generate_styled_pdf(arg.title, arg.content)
    /\ pc' = "returned"
    /\ UNCHANGED <<env_api_key, uploaded_files, specific_topic, mcq_selected,
                   short_selected, long_selected, clicked, combined_text,
                   question_settings, paper_content, combined_paper,
                   pdf_buffer, calls, ui, arg>>

SpecPdf == InitPdf /\ [][Apply_generate_styled_pdf]_vars

\* extract_text applied to one file
InitExtract ==
    /\ pc = "call"
    /\ arg \in Files
    /\ ret = <<>>
    /\ MainUnused

Apply_extract_text ==
    /\ pc = "call"
    /\ ret' = extract_text(arg)
    /\ pc' = "returned"
    /\ UNCHANGED <<env_api_key, uploaded_files, specific_topic, mcq_selected,
                   short_selected, long_selected, clicked, combined_text,
                   question_settings, paper_content, combined_paper,
                   pdf_buffer, calls, ui, arg>>

SpecExtract == InitExtract /\ [][Apply_extract_text]_vars

\* generate_questions applied to its arguments, the client answering somehow
InitGenerate ==
    /\ pc = "call"
    /\ arg \in [content : Contents, question_type : QuestionTypes,
                num_questions : NumQuestions, difficulty : Difficulties,
                topic : Topics]
    /\ ret = <<>>
    /\ MainUnused

Apply_generate_questions ==
    /\ pc = "call"
    /\ \E response \in Responses :
          LET r == generate_questions(arg.content, arg.question_type,
                                      arg.num_questions, arg.difficulty,
                                      arg.topic, response)
          IN  /\ ret' = r.result
              /\ calls' = calls \o [i \in 1..Len(r.requests) |->
                                      [request  |-> r.requests[i],
                                       response |-> response]]
    /\ pc' = "returned"
    /\ UNCHANGED <<env_api_key, uploaded_files, specific_topic, mcq_selected,
                   short_selected, long_selected, clicked, combined_text,
                   question_settings, paper_content, combined_paper,
                   pdf_buffer, ui, arg>>

SpecGenerate == InitGenerate /\ [][Apply_generate_questions]_vars

(* -------------------------------- claims ------------------------------ *)

\* C1: for every non-empty selection of question types the assembler issues
\* exactly one completion call per selected type, one after another in the
\* order mcq, short, long (a call is issued only once the block before it is
\* appended), and the exam paper is the blank-line join of one block per
\* selected type in that order, each block starting with the line
\* "### <Display Name>".
C1_OneCallPerTypeInOrder ==
    LET Sel(t) == \/ t = "mcq" /\ mcq_selected
                  \/ t = "short" /\ short_selected
                  \/ t = "long" /\ long_selected
        order == SelectSeq(<<"mcq", "short", "long">>, Sel)
        TypeOf(t) == CASE t = "mcq" -> MCQ_TYPE
                       [] t = "short" -> SHORT_TYPE
                       [] t = "long" -> LONG_TYPE
        HeadingOf(t) ==
            <<"#", "#", "#", " ">>
              \o (CASE t = "mcq" -> MCQ_NAME
                    [] t = "short" -> SHORT_NAME
                    [] t = "long" -> LONG_NAME)
              \o <<"\n">>
        k == Len(paper_content)
        Off(i) == IF i = 1 THEN 0
                  ELSE IF i = 2 THEN Len(paper_content[1]) + 2
                  ELSE Len(paper_content[1]) + Len(paper_content[2]) + 4
    IN  (clicked /\ order # <<>>) =>
          /\ Len(calls) = k
          /\ k <= Len(order)
          /\ \A i \in 1..Len(calls) :
                calls[i].request.prompt.template = TypeOf(order[i])
          /\ \A i \in 1..k : StartsWith(paper_content[i], HeadingOf(order[i]))
          /\ pc = "done" =>
                /\ k = Len(order)
                /\ Len(combined_paper) = Off(k) + Len(paper_content[k])
                /\ \A i \in 1..k :
                      /\ SubSeq(combined_paper, Off(i) + 1,
                                Off(i) + Len(paper_content[i])) = paper_content[i]
                      /\ i < k =>
                            SubSeq(combined_paper,
                                   Off(i) + Len(paper_content[i]) + 1,
                                   Off(i) + Len(paper_content[i]) + 2)
                              = <<"\n", "\n">>

C1_Witness ==
    /\ pc = "done"
    /\ clicked /\ mcq_selected /\ short_selected /\ long_selected
    /\ Len(calls) = 3
    /\ pdf_buffer # <<>>

\* C2: when the completion client raises for one of the selected types the
\* other types are still generated: the finished paper has one section per
\* selected type, the body of a section whose call raised is
\* "Error generating questions: {message}" and the body of every other
\* section is the text the client returned for it.
C2_FailingSectionIsolated ==
    LET n == (IF mcq_selected THEN 1 ELSE 0) + (IF short_selected THEN 1 ELSE 0)
               + (IF long_selected THEN 1 ELSE 0)
        \* the text after the heading line and the blank line
        BodyOf(block) ==
            LET nl == CHOOSE i \in 1..Len(block) : block[i] = "\n" /\
                         \A j \in 1..(i - 1) : block[j] # "\n"
            IN  SubSeq(block, nl + 2, Len(block))
    IN  (pc = "done" /\ clicked /\ n > 0) =>
          /\ Len(paper_content) = n
          /\ Len(calls) = n
          /\ \A i \in 1..n :
                BodyOf(paper_content[i]) =
                    IF calls[i].response.raises
                    THEN <<"E", "r", "r", "o", "r", " ", "g", "e", "n", "e", "r",
                           "a", "t", "i", "n", "g", " ", "q", "u", "e", "s", "t",
                           "i", "o", "n", "s", ":", " ">> \o calls[i].response.text
                    ELSE calls[i].response.text

C2_Witness ==
    /\ pc = "done"
    /\ Len(calls) = 3
    /\ ~calls[1].response.raises
    /\ calls[2].response.raises
    /\ ~calls[3].response.raises
    /\ Len(paper_content) = 3

\* C6 as stated: in any run where no text could be extracted from any of the
\* uploaded documents (each one either cannot be read or holds no text; a
\* spreadsheet without cells is left aside, its rendering being the
\* library's), the application reports this and stops before any completion
\* call.
C6_NoExtractableTextStops ==
    LET NoTextIn(f) ==
            \/ f.corrupt
            \/ /\ f.type # XLSX_TYPE
               /\ \A i \in 1..Len(f.units) : f.units[i] \in {NoText, <<>>}
    IN  (/\ uploaded_files # <<>>
         /\ \A i \in 1..Len(uploaded_files) : NoTextIn(uploaded_files[i])
         /\ pc # "start")
        => (pc = "done" /\ ui = <<NO_TEXT_ERROR>> /\ calls = <<>>)

\* C6 as amended: in any run with at least one uploaded document where the
\* "\n\n"-join of the extract_text results is empty or whitespace-only, the
\* application reports that no text could be extracted and stops before any
\* completion call.
C6_BlankCombinedTextStops ==
    LET text == Join([i \in 1..Len(uploaded_files) |->
                         extract_text(uploaded_files[i]).value], <<"\n", "\n">>)
    IN  (/\ uploaded_files # <<>>
         /\ pc # "start"
         /\ \A i \in 1..Len(text) : text[i] \in {" ", "\t", "\n", "\r", "\f"})
        => (pc = "done" /\ ui = <<NO_TEXT_ERROR>> /\ calls = <<>>)

C6_Witness ==
    /\ Len(uploaded_files) = 2
    /\ combined_text = <<"\n", "\n">>
    /\ pc = "done"
    /\ ui = <<NO_TEXT_ERROR>>

\* C7: if the API credential is absent from the process environment, no
\* completion call is ever issued in that run.
C7_NoCallWithoutCredential ==
    ~env_api_key => calls = <<>>

\* C8: when Generate is triggered with no question type selected, a warning
\* is shown and nothing is generated: no completion call, no exam paper and
\* no PDF.
C8_NothingSelectedNothingGenerated ==
    (clicked /\ ~mcq_selected /\ ~short_selected /\ ~long_selected) =>
        /\ pc = "done"
        /\ ui[Len(ui)] = SELECT_WARNING
        /\ calls = <<>>
        /\ paper_content = <<>>
        /\ combined_paper = <<>>
        /\ pdf_buffer = <<>>

C8_Witness ==
    /\ clicked /\ ~mcq_selected /\ ~short_selected /\ ~long_selected
    /\ pc = "done"
    /\ Len(ui) = 2

\* C9: extract_text never raises: it returns a string, which is exactly
\* "Unsupported file format" when the declared media type is none of pdf,
\* docx, pptx, xlsx, plain text, and begins "Error processing file: " when
\* reading a supported type throws.
C9_ExtractNeverRaises ==
    pc = "returned" =>
        /\ ~ret.raised
        /\ arg.type \notin {PDF_TYPE, DOCX_TYPE, PPTX_TYPE, XLSX_TYPE, TEXT_TYPE}
              => ret.value = UNSUPPORTED
        /\ (arg.type \in {PDF_TYPE, DOCX_TYPE, PPTX_TYPE, XLSX_TYPE, TEXT_TYPE}
              /\ arg.corrupt)
              => /\ Len(ret.value) >= 23
                 /\ SubSeq(ret.value, 1, 23) = ERROR_PROCESSING

C9_Witness ==
    /\ pc = "returned"
    /\ arg.type = PPTX_TYPE
    /\ arg.corrupt
    /\ ~ret.raised

\* C5: generate_questions called with empty or whitespace-only content
\* returns exactly "No content provided for question generation." whatever
\* the question type, count, difficulty and topic, and the completion client
\* is not called.
C5_BlankContentNoCall ==
    (pc = "returned"
       /\ \A i \in 1..Len(arg.content) :
             arg.content[i] \in {" ", "\t", "\n", "\r", "\f"})
    => (ret = NO_CONTENT /\ calls = <<>>)

C5_Witness ==
    /\ pc = "returned"
    /\ arg.content = <<" ", "\n">>
    /\ arg.question_type = LONG_TYPE
    /\ ret = NO_CONTENT

\* C3 as stated: the elements are the title paragraph, the fixed spacer, then
\* for each line that is non-empty after stripping, in order, one paragraph
\* followed by one small spacer; an empty or whitespace-only line contributes
\* no element, so there are as many small spacers as body paragraphs.
C3_BlankLinesContributeNothing ==
    LET lines == Split(arg.content, "\n")
        NonBlank(l) == \E i \in 1..Len(l) : l[i] \notin {" ", "\t", "\n", "\r", "\f"}
        kept == SelectSeq(lines, NonBlank)
    IN  pc = "returned" =>
          /\ Len(ret) = 2 + 2 * Len(kept)
          /\ ret[1] = [kind |-> "Paragraph", text |-> arg.title, style |-> "TitleStyle"]
          /\ ret[2] = [kind |-> "Spacer", height |-> "0.25 inch"]
          /\ \A k \in 1..Len(kept) :
                /\ ret[2 * k + 1].kind = "Paragraph"
                /\ ret[2 * k + 2] = [kind |-> "Spacer", height |-> "0.1 inch"]

\* C3 as amended: the elements are the title paragraph, the fixed spacer, then
\* for each line of the body in order: one paragraph if the line is non-empty
\* after stripping (carrying the stripped line, unless it is a heading), and
\* in every case one small spacer; so there are as many small spacers as
\* lines, and as many body paragraphs as non-blank lines.
C3_EveryLineEndsWithSpacer ==
    LET lines == Split(arg.content, "\n")
        NonBlank(l) == \E i \in 1..Len(l) : l[i] \notin {" ", "\t", "\n", "\r", "\f"}
        \* the number of non-blank lines among the first i
        P(i) == Cardinality({j \in 1..i : NonBlank(lines[j])})
        body == SubSeq(ret, 3, Len(ret))
    IN  pc = "returned" =>
          /\ Len(ret) >= 2
          /\ ret[1] = [kind |-> "Paragraph", text |-> arg.title, style |-> "TitleStyle"]
          /\ ret[2] = [kind |-> "Spacer", height |-> "0.25 inch"]
          /\ Len(body) = Len(lines) + P(Len(lines))
          /\ \A i \in 1..Len(lines) :
                /\ body[i + P(i)] = [kind |-> "Spacer", height |-> "0.1 inch"]
                /\ NonBlank(lines[i]) =>
                      /\ body[i + P(i) - 1].kind = "Paragraph"
                      /\ body[i + P(i) - 1].style # "QuestionHeaderStyle"
                            => body[i + P(i) - 1].text = Strip(lines[i])

C3_Witness ==
    /\ pc = "returned"
    /\ arg.content = <<"Q", "\n", " ", "\n">>
    /\ Len(ret) = 6

\* C4: every non-empty stripped line gets exactly one style, chosen from that
\* line alone by the first matching rule: starts with "###" gives the
\* section-heading style; else starts with "Q" gives the question style; else
\* starts with one of "A)", "B)", "C)", "D)" gives the indented option style;
\* else the default body style.
C4_StyleByFirstMatchingPrefix ==
    LET lines == Split(arg.content, "\n")
        paragraphs == SelectSeq(SubSeq(ret, 3, Len(ret)),
                                LAMBDA e : e.kind = "Paragraph")
        stripped == [i \in 1..Len(lines) |-> Strip(lines[i])]
        kept == SelectSeq(stripped, LAMBDA l : l # <<>>)
        Has(l, p) == Len(l) >= Len(p) /\ \A i \in 1..Len(p) : l[i] = p[i]
        StyleOf(l) ==
            IF Has(l, <<"#", "#", "#">>) THEN "QuestionHeaderStyle"
            ELSE IF Has(l, <<"Q">>) THEN "QuestionStyle"
            ELSE IF \/ Has(l, <<"A", ")">>) \/ Has(l, <<"B", ")">>)
                    \/ Has(l, <<"C", ")">>) \/ Has(l, <<"D", ")">>)
                 THEN "OptionStyle"
            ELSE "BodyText"
    IN  pc = "returned" =>
          /\ Len(paragraphs) = Len(kept)
          /\ \A k \in 1..Len(kept) : paragraphs[k].style = StyleOf(kept[k])

C4_Witness ==
    /\ pc = "returned"
    /\ arg.content = <<"Q", "\n", "A", ")", "A">>
    /\ ret[3].style = "QuestionStyle"
    /\ ret[5].style = "OptionStyle"
    /\ ret[5].text = <<"A", ")", "A">>

\* C10: for every line that starts with "###" the heading paragraph carries
\* the line with only the leading "###" removed and the surrounding whitespace
\* trimmed; every other character, a later "###" included, is kept.
C10_OnlyLeadingMarkerRemoved ==
    LET lines == Split(arg.content, "\n")
        paragraphs == SelectSeq(SubSeq(ret, 3, Len(ret)),
                                LAMBDA e : e.kind = "Paragraph")
        stripped == [i \in 1..Len(lines) |-> Strip(lines[i])]
        kept == SelectSeq(stripped, LAMBDA l : l # <<>>)
    IN  pc = "returned" =>
          \A k \in 1..Len(kept) :
             (Len(kept[k]) >= 3 /\ SubSeq(kept[k], 1, 3) = <<"#", "#", "#">>)
                => /\ k <= Len(paragraphs)
                   /\ paragraphs[k].text = Strip(SubSeq(kept[k], 4, Len(kept[k])))

====
